---------------------------- MODULE Spec2Model ----------------------------
(***************************************************************************)
(* Tag resolution engine of authentik blueprints                           *)
(* (authentik/blueprints/v1/common.py).                                    *)
(*                                                                         *)
(* Python values are records with a "tag" field naming their type; YAML    *)
(* tags are records named after their class.  A call of tag_resolver is    *)
(* evaluated as a whole: the recursive operators below thread the state a  *)
(* resolution can change (the resolving entry's context stack and the      *)
(* current pair of every For object) and carry a raised exception out of   *)
(* every enclosing call, as Python does.                                   *)
(***************************************************************************)
EXTENDS Integers, Sequences, FiniteSets, TLC

\* ------------------------------------------------------------------ bounds

\* Longest sequence stored under document.context["seq"].
MaxLen == 2

\* Most context objects all entries' stacks may hold together between calls.
MaxStack == 1

\* Most arguments of a Condition tag drawn in SpecCondition.
MaxArgs == 3

\* Most writes a caller makes to a resolved value in SpecCopy.
MaxWrites == 2

\* Most pieces of a Format template drawn in SpecFormat.
MaxPieces == 3

\* Most fields of a serializer drawn in SpecAttrs.
MaxFields == 2

\* ------------------------------------------------------------ Python values

None == [tag |-> "None"]

PyBool(b) == [tag |-> "bool", b |-> b]

PyInt(n) == [tag |-> "int", n |-> n]

PyStr(s) == [tag |-> "str", s |-> s]

PyList(items) == [tag |-> "list", items |-> items]

\* A mapping in insertion order: a sequence of [key, value] records.
PyDict(items) == [tag |-> "dict", items |-> items]

KV(k, v) == [key |-> k, value |-> v]

\* A member of the enumeration BlueprintEntryDesiredState.
BlueprintEntryDesiredState(s) == [tag |-> "BlueprintEntryDesiredState", s |-> s]

DesiredStateValues == {"absent", "present", "created"}

\* ---------------------------------------------------------------- YAML tags

KeyOf(id_from) == [tag |-> "KeyOf", id_from |-> id_from]

Env(key, default) == [tag |-> "Env", key |-> key, default |-> default]

Context(key, default) == [tag |-> "Context", key |-> key, default |-> default]

\* format_string is the template cut into its pieces: conversion
\* specifications ("%s", "%d"), the escape "%%" and the text between them.
Format(format_string, args) ==
    [tag |-> "Format", format_string |-> format_string, args |-> args]

Find(model_name, conditions) ==
    [tag |-> "Find", model_name |-> model_name, conditions |-> conditions]

Condition(mode, args) == [tag |-> "Condition", mode |-> mode, args |-> args]

If(condition, when_true, when_false) ==
    [tag |-> "If", condition |-> condition,
     when_true |-> when_true, when_false |-> when_false]

ForItem(depth) == [tag |-> "ForItem", depth |-> depth]

ForItemIndex(depth) == [tag |-> "ForItemIndex", depth |-> depth]

\* oid is the identity of the tag object: the context stack compares with "is".
For(oid, iterable, item_body) ==
    [tag |-> "For", oid |-> oid, iterable |-> iterable, item_body |-> item_body]

YAMLTagNames ==
    {"KeyOf", "Env", "Context", "Format", "Find", "Condition", "If",
     "ForItem", "ForItemIndex", "For"}

\* isinstance(value, YAMLTag)
IsYAMLTag(value) == value.tag \in YAMLTagNames

\* isinstance(value, YAMLTagContext)
IsYAMLTagContext(value) == value.tag = "For"

\* bool(x)
Truthy(x) ==
    CASE x.tag = "None" -> FALSE
      [] x.tag = "bool" -> x.b
      [] x.tag = "int" -> x.n # 0
      [] x.tag = "str" -> x.s # ""
      [] x.tag = "list" -> x.items # <<>>
      [] x.tag = "dict" -> x.items # <<>>
      [] OTHER -> TRUE

\* --------------------------------------------------------------- exceptions

NoExc == "no exception"

EntryInvalidError == "EntryInvalidError"

TypeError == "TypeError"

ValueError == "ValueError"

IndexError == "IndexError"

AttributeError == "AttributeError"

FieldError == "FieldError"

\* What a call gives back: a value, or an exception, and the state it left.
Return(v, st) == [val |-> v, exc |-> NoExc, st |-> st]

Raise(e, st) == [val |-> None, exc |-> e, st |-> st]


\* ------------------------------------------------------------- the document

\* Blueprint.entries: the declared fields of each BlueprintEntry, in declared
\* order.  Entries 1 and 2 share an id; entry 1 materializes to a User, entry 2
\* to a Flow (a PolicyBindingModel); entries 3 and 4 are policy bindings, the
\* model of entry 4 being given as a tag.
PolicyBindingName == "authentik_policies.policybinding"

Entries ==
    << [id |-> PyStr("a"), model |-> PyStr("authentik_core.user"),
        state |-> PyStr("created"),
        conditions |-> <<Condition(<<"o", "r">>, <<PyBool(FALSE), Context("seq", None)>>)>>,
        identifiers |-> PyDict(<<KV("username", Env("AK_USER", PyStr("akadmin")))>>),
        attrs |-> PyDict(<<KV("groups",
                     For(1, Context("seq", None),
                         PyDict(<<KV("idx", ForItemIndex(0)),
                                  KV("val", ForItem(0))>>)))>>)],
       [id |-> PyStr("a"), model |-> PyStr("authentik_flows.flow"),
        state |-> BlueprintEntryDesiredState("present"),
        conditions |-> <<>>,
        identifiers |-> PyDict(<<KV("slug", PyStr("a"))>>),
        attrs |-> PyDict(<<>>)],
       [id |-> PyStr("b"), model |-> PyStr("Authentik_Policies.PolicyBinding"),
        state |-> If(KeyOf("a"), PyStr("present"), PyStr("absent")),
        conditions |-> <<KeyOf("a"), PyBool(TRUE)>>,
        identifiers |-> PyDict(<<KV("target", KeyOf("a"))>>),
        attrs |-> PyDict(<<KV("order", PyInt(0))>>)],
       [id |-> None, model |-> Context("binding_model", PyStr(PolicyBindingName)),
        state |-> Context("state", PyStr("gone")),
        conditions |-> <<PyInt(10), PyList(<<>>)>>,
        identifiers |-> PyDict(<<KV("target", KeyOf("a")),
                                 KV("policy", KeyOf("b"))>>),
        attrs |-> PyDict(<<KV("order",
                     For(2, PyList(<<PyInt(10), PyInt(20)>>), KeyOf("b")))>>)] >>

EntryIds == 1..Len(Entries)

\* The object the reconciler stores in entry e's _state.instance: its primary
\* key, whether its class derives from PolicyBindingModel, and its pbm_uuid.
InstanceOf(e) ==
    [tag |-> "Model", pk |-> PyInt(100 + e),
     is_pbm |-> (Entries[e].model = PyStr("authentik_flows.flow")),
     pbm_uuid |-> PyInt(200 + e)]

\* os.environ
Environ == [AK_USER |-> PyStr("root")]

\* The rows of the entity store that Find queries, in primary key order.
StoreRows ==
    << [model |-> "authentik_core.user", pk |-> PyInt(1), name |-> PyStr("a")],
       [model |-> "authentik_core.user", pk |-> PyInt(2), name |-> PyStr("b")],
       [model |-> "authentik_core.group", pk |-> PyInt(3), name |-> PyStr("a")] >>

StoreFields == {"pk", "name"}

\* The i-th item of the sequences document.context["seq"] is drawn from.
SeqItem(i) == PyInt(10 * i)

\* The sequence of the first n of them.
SeqOfLen(n) == PyList([i \in 1..n |-> SeqItem(i)])

\* ------------------------------------------------------------------ state

VARIABLES
    context,          \* Blueprint.context: the caller's key -> value map
    instance,         \* instance[e]: entry e's _state.instance, None until set
    pos,              \* the entry the external reconciler is working on
    tag_contexts,     \* tag_contexts[e]: entry e's __tag_contexts, as For oids
    current_context,  \* current_context[f]: For object f's __current_context
    last,             \* the last top-level call: what was asked, what came back
    mem               \* the containers of SpecCopy and what points into them

vars == <<context, instance, pos, tag_contexts, current_context, last, mem>>

\* The For objects of the document and of the values resolved against it.
ForOids == 1..10

\* The state one resolution call threads through its nested calls.  log,
\* active, resolving and bodies observe the call and are read by no operation:
\* log lists what happened in order, active the For objects whose tag_resolver
\* call is running, resolving the For objects whose resolve call is running and
\* bodies the For objects whose item_body is being resolved.
CallState(e) ==
    [tag_contexts |-> tag_contexts[e], current_context |-> current_context,
     log |-> <<>>, active |-> <<>>, resolving |-> <<>>, bodies |-> <<>>]

Log(st, event) == [st EXCEPT !.log = Append(@, event)]

\* str.lower() and str.upper() on the spellings that occur.
Lower(s) ==
    CASE s = "Authentik_Policies.PolicyBinding" -> PolicyBindingName
      [] OTHER -> s

\* A mode of Condition is spelled as its sequence of characters, so that
\* str.upper() works on it character by character.
UpperChar(c) ==
    CASE c = "a" -> "A"
      [] c = "d" -> "D"
      [] c = "e" -> "E"
      [] c = "n" -> "N"
      [] c = "o" -> "O"
      [] c = "q" -> "Q"
      [] c = "r" -> "R"
      [] c = "x" -> "X"
      [] OTHER -> c

Upper(s) == [i \in 1..Len(s) |-> UpperChar(s[i])]

\* ------------------------------------------------- BlueprintEntry internals

\* The (index, item) tuple For.resolve stores in __current_context.
Pair(index, item) == [tag |-> "tuple", index |-> PyInt(index), item |-> item]

Top(stack) == stack[Len(stack)]

ButLast(stack) == SubSeq(stack, 1, Len(stack) - 1)

\* contexts[depth]: counted from the outermost context object.
get_tag_context_outermost_first(st, depth) ==
    IF depth < 0 THEN Raise(ValueError, st)
    ELSE IF depth + 1 > Len(st.tag_contexts) THEN Raise(ValueError, st)
    ELSE Return(st.tag_contexts[depth + 1], st)

\* BlueprintEntry._get_tag_context with context_tag_type=For: every context
\* object is a For, so the filter keeps the whole list.
get_tag_context(st, depth) ==
    IF depth < 0 THEN Raise(ValueError, st)
    ELSE LET contexts == st.tag_contexts
         IN IF depth + 1 > Len(contexts) THEN Raise(ValueError, st)
            ELSE Return(contexts[Len(contexts) - depth], st)

\* ----------------------------------------------------------- tag resolvers

\* KeyOf.resolve: the first entry in declared order with this id and an
\* instance; a PolicyBindingModel gives its pbm_uuid to a policy binding.
RECURSIVE KeyOf_scan(_, _, _, _)
KeyOf_scan(entry, value, i, st) ==
    IF i > Len(Entries) THEN Raise(EntryInvalidError, st)
    ELSE IF Entries[i].id = PyStr(value.id_from) /\ instance[i] # None
    THEN IF instance[i].is_pbm
         THEN IF Entries[entry].model.tag # "str" THEN Raise(AttributeError, st)
              ELSE IF Lower(Entries[entry].model.s) = PolicyBindingName
                   THEN Return(instance[i].pbm_uuid, st)
                   ELSE Return(instance[i].pk, st)
         ELSE Return(instance[i].pk, st)
    ELSE KeyOf_scan(entry, value, i + 1, st)

KeyOf_resolve(entry, value, st) == KeyOf_scan(entry, value, 1, st)

\* Env.resolve: getenv(key, default)
Env_resolve(entry, value, st) ==
    IF value.key \in DOMAIN Environ THEN Return(Environ[value.key], st)
    ELSE Return(value.default, st)

\* Context.resolve
Context_resolve(entry, value, st) ==
    IF value.key \in DOMAIN context THEN Return(context[value.key], st)
    ELSE Return(value.default, st)

\* The comparators of Condition._COMPARATORS over a non-empty tuple of bools.
PyAll(bools) == \A i \in 1..Len(bools) : bools[i]

PyAny(bools) == \E i \in 1..Len(bools) : bools[i]

\* operator.ixor on two bools
ixor(a, b) == a # b

\* functools.reduce(ixor, args): the fold from the left, seeded with args[0].
RECURSIVE reduce_ixor(_, _, _)
reduce_ixor(acc, bools, i) ==
    IF i > Len(bools) THEN acc ELSE reduce_ixor(ixor(acc, bools[i]), bools, i + 1)

\* True when exactly one of them is.
Xor_exactly_one(bools) == Cardinality({i \in 1..Len(bools) : bools[i]}) = 1

Xor(bools) == IF Len(bools) > 1 THEN reduce_ixor(bools[1], bools, 2) ELSE bools[1]

\* The keys of Condition._COMPARATORS.
AND == <<"A", "N", "D">>

NAND == <<"N", "A", "N", "D">>

OR == <<"O", "R">>

NOR == <<"N", "O", "R">>

XOR == <<"X", "O", "R">>

XNOR == <<"X", "N", "O", "R">>

COMPARATORS == {AND, NAND, OR, NOR, XOR, XNOR}

Compare(mode, bools) ==
    CASE mode = AND -> PyAll(bools)
      [] mode = NAND -> ~PyAll(bools)
      [] mode = OR -> PyAny(bools)
      [] mode = NOR -> ~PyAny(bools)
      [] mode = XOR -> Xor(bools)
      [] mode = XNOR -> ~Xor(bools)

\* Condition.resolve once its args are resolved.
Condition_compare(mode, args, st) ==
    IF args = <<>> THEN Raise(EntryInvalidError, st)
    ELSE IF Upper(mode) \notin COMPARATORS THEN Raise(EntryInvalidError, st)
    ELSE Return(PyBool(Compare(Upper(mode), [i \in 1..Len(args) |-> Truthy(args[i])])), st)

\* Find.resolve once its conditions are resolved: the query is the conjunction
\* of the pairs, the answer the first matching row's pk or None.
RowMatches(row, model_name, query) ==
    /\ row.model = model_name
    /\ \A i \in 1..Len(query) : row[query[i][1].s] = query[i][2]

RECURSIVE FirstRow(_, _, _)
FirstRow(model_name, query, i) ==
    IF i > Len(StoreRows) THEN None
    ELSE IF RowMatches(StoreRows[i], model_name, query) THEN StoreRows[i].pk
    ELSE FirstRow(model_name, query, i + 1)

Find_query(model_name, query, st) ==
    IF \E i \in 1..Len(query) : query[i][1].s \notin StoreFields
    THEN Raise(FieldError, Log(st, [ev |-> "query", model_name |-> model_name]))
    ELSE Return(FirstRow(model_name, query, 1),
                Log(st, [ev |-> "query", model_name |-> model_name]))

\* BaseForItem.resolve: the current pair of the For found at this depth; the
\* ValueError of _get_tag_context becomes an EntryInvalidError.
BaseForItem_found(st, found) ==
    IF found.exc = ValueError THEN Raise(EntryInvalidError, st)
    ELSE Return(st.current_context[found.val], st)

BaseForItem_resolve(value, st) ==
    BaseForItem_found(st, get_tag_context(st, value.depth))

\* What the log keeps of a ForItem or ForItemIndex call: the For objects that
\* were active, the pair of the one at this depth among them, and the outcome.
ForItemEvent(value, st, r) ==
    [ev |-> "item", tag |-> value.tag, depth |-> value.depth,
     active |-> st.active, resolving |-> Len(st.resolving),
     own |-> IF st.bodies # <<>> THEN st.current_context[Top(st.bodies)] ELSE None,
     pair |-> IF value.depth >= 0 /\ value.depth < Len(st.active)
              THEN st.current_context[st.active[Len(st.active) - value.depth]]
              ELSE None,
     exc |-> r.exc, val |-> r.val]

Logged(value, st, r) == [r EXCEPT !.st = Log(st, ForItemEvent(value, st, r))]

\* "super().resolve(entry, blueprint)[0]"
PairIndex(got) ==
    IF got.exc # NoExc THEN got
    ELSE IF got.val.tag # "tuple" THEN Raise(TypeError, got.st)
    ELSE Return(got.val.index, got.st)

\* "super().resolve(entry, blueprint)[1]"
PairItem(got) ==
    IF got.exc # NoExc THEN got
    ELSE IF got.val.tag # "tuple" THEN Raise(TypeError, got.st)
    ELSE Return(got.val.item, got.st)

\* ForItemIndex.resolve
ForItemIndex_resolve(entry, value, st) ==
    Logged(value, st, PairIndex(BaseForItem_resolve(value, st)))

\* ForItem.resolve
ForItem_resolve(entry, value, st) ==
    Logged(value, st, PairItem(BaseForItem_resolve(value, st)))

\* ------------------------------------------------------------ the resolver

RECURSIVE tag_resolver(_, _, _), resolve(_, _, _), resolve_args(_, _, _, _, _),
          resolve_items(_, _, _, _, _), Find_conditions(_, _, _, _, _),
          For_loop(_, _, _, _, _, _)

\* copy.deepcopy: a value of the same structure in containers of its own.
\* Values here are structures; SpecCopy models the containers themselves.
deepcopy(value) == value

\* "arg.resolve(entry, blueprint) if isinstance(arg, YAMLTag) else arg": the
\* tag's resolve is called directly, not through tag_resolver.
resolve_if_tag(entry, arg, st) ==
    IF IsYAMLTag(arg) THEN resolve(entry, arg, st) ELSE Return(arg, st)

\* The loop over self.args of Condition.resolve: args.append(...)
resolve_args_next(entry, args, i, acc, r) ==
    IF r.exc # NoExc THEN r
    ELSE resolve_args(entry, args, i + 1, Append(acc, r.val), r.st)

resolve_args(entry, args, i, acc, st) ==
    IF i > Len(args) THEN Return(PyList(acc), st)
    ELSE resolve_args_next(entry, args, i, acc, resolve_if_tag(entry, args[i], st))

\* format_string % tuple(args): every conversion takes the next argument, "%d"
\* takes a number only, and no argument may be left over.
Conversions == {"%s", "%d"}

IsNumber(x) == x.tag \in {"int", "bool"}

Shown(conversion, x) ==
    CASE conversion = "%d" /\ x.tag = "bool" -> IF x.b THEN "1" ELSE "0"
      [] conversion = "%d" /\ x.tag = "int" -> ToString(x.n)
      [] conversion = "%s" /\ x.tag = "bool" -> IF x.b THEN "True" ELSE "False"
      [] conversion = "%s" /\ x.tag = "int" -> ToString(x.n)
      [] conversion = "%s" /\ x.tag = "str" -> x.s
      [] conversion = "%s" /\ x.tag = "None" -> "None"
      [] OTHER -> "<object>"

RECURSIVE Percent_scan(_, _, _, _, _, _)
Percent_scan(pieces, i, args, j, out, st) ==
    IF i > Len(pieces)
    THEN IF j <= Len(args) THEN Raise(TypeError, st) ELSE Return(PyStr(out), st)
    ELSE IF pieces[i] \notin Conversions
    THEN Percent_scan(pieces, i + 1, args, j,
                      out \o (IF pieces[i] = "%%" THEN "%" ELSE pieces[i]), st)
    ELSE IF j > Len(args) THEN Raise(TypeError, st)
    ELSE IF pieces[i] = "%d" /\ ~IsNumber(args[j]) THEN Raise(TypeError, st)
    ELSE Percent_scan(pieces, i + 1, args, j + 1, out \o Shown(pieces[i], args[j]), st)

\* The TypeError of the substitution is let through.
Format_no_except(r) == r

\* "except TypeError as exc: raise EntryInvalidError(exc)"
Format_except(r) ==
    IF r.exc = TypeError THEN Raise(EntryInvalidError, r.st) ELSE r

Format_resolved(value, r) ==
    IF r.exc # NoExc THEN r
    ELSE Format_except(Percent_scan(value.format_string, 1, r.val.items, 1, "", r.st))

\* Format.resolve
Format_resolve(entry, value, st) ==
    Format_resolved(value, resolve_args(entry, value.args, 1, <<>>, st))

Condition_resolved(value, r) ==
    IF r.exc # NoExc THEN r ELSE Condition_compare(value.mode, r.val.items, r.st)

\* Condition.resolve
Condition_resolve(entry, value, st) ==
    Condition_resolved(value, resolve_args(entry, value.args, 1, <<>>, st))

\* The loop over self.conditions of Find.resolve: each side of a pair is
\* resolved if it is a tag; Q(**{key: value}) needs a str key.
Find_pair(entry, conditions, i, query, k, v) ==
    IF v.exc # NoExc THEN v
    ELSE IF k.val.tag # "str" THEN Raise(TypeError, v.st)
    ELSE Find_conditions(entry, conditions, i + 1,
                         Append(query, <<k.val, v.val>>), v.st)

Find_value(entry, conditions, i, query, k) ==
    IF k.exc # NoExc THEN k
    ELSE Find_pair(entry, conditions, i, query, k,
                   resolve_if_tag(entry, conditions[i][2], k.st))

Find_conditions(entry, conditions, i, query, st) ==
    IF i > Len(conditions) THEN Return(PyList(query), st)
    ELSE Find_value(entry, conditions, i, query,
                    resolve_if_tag(entry, conditions[i][1], st))

Find_resolved(value, r) ==
    IF r.exc # NoExc THEN r ELSE Find_query(value.model_name, r.val.items, r.st)

\* Find.resolve
Find_resolve(entry, value, st) ==
    Find_resolved(value, Find_conditions(entry, value.conditions, 1, <<>>, st))

\* The branch If.resolve hands to tag_resolver.
If_selected(value, condition) ==
    IF Truthy(condition) THEN value.when_true ELSE value.when_false

\* "except TypeError as exc: raise EntryInvalidError(exc)"
If_except(r) ==
    IF r.exc = TypeError THEN Raise(EntryInvalidError, r.st) ELSE r

\* The log marks where an If call ended, where it began and what it chose.
If_end(value, begin, c, r) ==
    [r EXCEPT !.st = Log(@, [ev |-> "If", begin |-> begin, node |-> value,
                             condition |-> c.val, raised |-> c.exc,
                             val |-> r.val, exc |-> r.exc])]

\* Both branches resolved, the unselected one first.
If_branch_both(entry, value, begin, c) ==
    IF c.exc # NoExc THEN If_end(value, begin, c, c)
    ELSE If_end(value, begin, c,
                If_except(tag_resolver(
                    entry, If_selected(value, c.val),
                    tag_resolver(entry, If_selected(value, PyBool(~Truthy(c.val))),
                                 c.st).st)))

If_branch(entry, value, begin, c) ==
    IF c.exc # NoExc THEN If_end(value, begin, c, c)
    ELSE If_end(value, begin, c,
                If_except(tag_resolver(entry, If_selected(value, c.val), c.st)))

\* If.resolve
If_resolve(entry, value, st) ==
    If_branch(entry, value, Len(st.log),
              resolve_if_tag(entry, value.condition, st))

\* What iterating a value yields, or that it cannot be iterated.
IsIterable(v) == v.tag \in {"list", "dict", "str"}

Chars(s) ==
    CASE s = "" -> <<>>
      [] s = "ab" -> <<PyStr("a"), PyStr("b")>>
      [] OTHER -> <<PyStr(s)>>

Iterate(v) ==
    CASE v.tag = "list" -> v.items
      [] v.tag = "dict" -> [i \in 1..Len(v.items) |-> PyStr(v.items[i].key)]
      [] v.tag = "str" -> Chars(v.s)

\* enumerate(iterable, 1)
Enumerate_from_one(items, i) == Pair(i, items[i])

\* The i-th pair of enumerate(iterable), counting from one.
Enumerate(items, i) == Pair(i - 1, items[i])

\* self.__current_context = pair (None clears it)
SetCurrent(st, oid, pair) == [st EXCEPT !.current_context[oid] = pair]

\* What For.resolve leaves in __current_context before and after the loop.
For_cleared == None

\* The loop of For.resolve over tuple(enumerate(iterable)):
\* result.append(entry.tag_resolver(self.item_body, blueprint))
For_append(entry, value, items, i, result, r) ==
    IF r.exc # NoExc THEN r
    ELSE For_loop(entry, value, items, i + 1, Append(result, r.val),
                  [r.st EXCEPT !.bodies = ButLast(@)])

\* What the log keeps of a For call that returned: what it iterated over, what
\* it returned and whether it was reached through tag_resolver.
ForEvent(value, items, result, st) ==
    [ev |-> "for", oid |-> value.oid, item_body |-> value.item_body,
     items |-> items, result |-> result,
     through |-> st.active # <<>> /\ Top(st.active) = value.oid]

For_return(value, items, result, st) ==
    Return(PyList(result),
           Log([SetCurrent(st, value.oid, For_cleared)
                   EXCEPT !.resolving = ButLast(@)],
               ForEvent(value, items, result, st)))

For_loop(entry, value, items, i, result, st) ==
    IF i > Len(items) THEN For_return(value, items, result, st)
    ELSE For_append(entry, value, items, i, result,
                    tag_resolver(entry, value.item_body,
                                 [SetCurrent(st, value.oid, Enumerate(items, i))
                                     EXCEPT !.bodies = Append(@, value.oid)]))

For_iterate(entry, value, it) ==
    IF it.exc # NoExc THEN it
    ELSE IF ~IsIterable(it.val)
    THEN Raise(TypeError, SetCurrent(it.st, value.oid, For_cleared))
    ELSE For_loop(entry, value, Iterate(it.val), 1, <<>>,
                  SetCurrent(it.st, value.oid, For_cleared))

\* For.resolve
For_resolve(entry, value, st) ==
    For_iterate(entry, value,
                resolve_if_tag(entry, value.iterable,
                               [st EXCEPT !.resolving = Append(@, value.oid)]))

\* YAMLTag.resolve, by the class of the tag; the log notes every call.
resolve_class(entry, value, s) ==
    CASE value.tag = "KeyOf" -> KeyOf_resolve(entry, value, s)
      [] value.tag = "Env" -> Env_resolve(entry, value, s)
      [] value.tag = "Context" -> Context_resolve(entry, value, s)
      [] value.tag = "Format" -> Format_resolve(entry, value, s)
      [] value.tag = "Find" -> Find_resolve(entry, value, s)
      [] value.tag = "Condition" -> Condition_resolve(entry, value, s)
      [] value.tag = "If" -> If_resolve(entry, value, s)
      [] value.tag = "ForItem" -> ForItem_resolve(entry, value, s)
      [] value.tag = "ForItemIndex" -> ForItemIndex_resolve(entry, value, s)
      [] value.tag = "For" -> For_resolve(entry, value, s)

resolve(entry, value, st) ==
    resolve_class(entry, value, Log(st, [ev |-> "resolve", node |-> value]))

\* The loops of tag_resolver over value.items() and enumerate(value):
\* val[key] = self.tag_resolver(inner_value, blueprint), val a copy of value.
InnerValue(value, i) ==
    IF value.tag = "dict" THEN value.items[i].value ELSE value.items[i]

SetInner(value, val, i, inner) ==
    IF value.tag = "dict" THEN [val EXCEPT !.items[i].value = inner]
    ELSE [val EXCEPT !.items[i] = inner]

resolve_items_next(entry, value, i, val, r) ==
    IF r.exc # NoExc THEN r
    ELSE resolve_items(entry, value, i + 1, SetInner(value, val, i, r.val), r.st)

resolve_items(entry, value, i, val, st) ==
    IF i > Len(value.items) THEN Return(val, st)
    ELSE resolve_items_next(entry, value, i, val,
                            tag_resolver(entry, InnerValue(value, i), st))

\* "if not self.__tag_contexts or self.__tag_contexts[-1] is not value: append"
push_context(st, value) ==
    IF st.tag_contexts = <<>> \/ Top(st.tag_contexts) # value.oid
    THEN [st EXCEPT !.tag_contexts = Append(@, value.oid)]
    ELSE st

\* "self.__tag_contexts.pop()", reached only when nothing was raised before it.
pop_context(r) ==
    IF r.exc # NoExc THEN r
    ELSE IF r.st.tag_contexts = <<>> THEN Raise(IndexError, r.st)
    ELSE [r EXCEPT !.st.tag_contexts = ButLast(@)]

\* tag_resolver, first part: a context object goes on the stack, a tag is
\* resolved, anything else is copied.
tag_resolver_enter(st, value) ==
    IF IsYAMLTagContext(value)
    THEN [push_context(st, value) EXCEPT !.active = Append(@, value.oid)]
    ELSE st

tag_resolver_value(entry, value, st1) ==
    IF IsYAMLTag(value) THEN resolve(entry, value, st1)
    ELSE Return(deepcopy(value), st1)

\* tag_resolver, second part: the items of a dict or a list are resolved.
tag_resolver_items(entry, value, r1) ==
    IF r1.exc # NoExc THEN r1
    ELSE IF value.tag \in {"dict", "list"}
    THEN resolve_items(entry, value, 1, r1.val, r1.st)
    ELSE r1

\* What the log keeps of a tag_resolver call on a context object: the stack
\* when it began and when it ended.
LeaveEvent(value, st, r) ==
    [ev |-> "leave", oid |-> value.oid, entered |-> st.tag_contexts,
     left |-> r.st.tag_contexts, exc |-> r.exc]

Left(value, st, r3) ==
    [r3 EXCEPT !.st = Log([@ EXCEPT !.active = ButLast(@)], LeaveEvent(value, st, r3))]

\* tag_resolver, last part: the context object comes off the stack.
tag_resolver_leave(value, st, r2) ==
    IF IsYAMLTagContext(value) THEN Left(value, st, pop_context(r2)) ELSE r2

\* BlueprintEntry.tag_resolver
tag_resolver(entry, value, st) ==
    tag_resolver_leave(
        value, st,
        tag_resolver_items(
            entry, value,
            tag_resolver_value(entry, value, tag_resolver_enter(st, value))))

\* ------------------------------------------------- values that get resolved

\* The loop of the spec's example over document.context["seq"]; entry 1 holds it.
ForGroups == Entries[1].attrs.items[1].value

\* A loop whose body fails until entry 3 is materialized; entry 4 holds it.
ForOrder == Entries[4].attrs.items[1].value

\* Two nested loops reading both depths; the inner one also stands alone.
ForInner ==
    For(4, PyList(<<PyInt(10), PyInt(20)>>),
        PyList(<<ForItem(0), ForItem(1), ForItemIndex(0), ForItemIndex(1)>>))

ForOuter == For(3, PyList(<<PyInt(1), PyInt(2)>>), ForInner)

\* A loop whose iterable fails until entry 3 is materialized.
ForGuarded ==
    For(5, If(KeyOf("b"), Context("seq", None), PyList(<<>>)), ForItem(0))

\* Three nested loops, a sequence sitting between the first and the second.
ForDeep == For(6, Context("seq", None), PyList(<<ForItemIndex(0), ForOuter>>))

\* A loop that is a direct argument of another tag.
ForArg == For(7, PyList(<<PyInt(10)>>), ForItem(0))

\* A loop over nothing, a loop over a mapping and a loop over a number.
ForEmpty == For(8, PyList(<<>>), KeyOf("zz"))

ForKeys ==
    For(9, PyDict(<<KV("x", PyInt(1)), KV("y", KeyOf("a"))>>),
        PyList(<<ForItemIndex(0), ForItem(0)>>))

\* A loop over a literal sequence that holds a tag and a list.
ForTags ==
    For(10, PyList(<<KeyOf("a"), PyList(<<PyInt(1)>>)>>), ForItem(0))

FindUser == Find("authentik_core.user", << <<PyStr("name"), PyStr("b")>> >>)

FindBadField == Find("authentik_core.group", << <<PyStr("nope"), PyInt(1)>> >>)

FindByTag == Find("authentik_core.group", << <<PyStr("name"), Env("AK_GROUP", PyStr("a"))>> >>)

\* The values handed to tag_resolver: the fields of the entries apart, every
\* tag alone, in containers and under the other tags.
Values ==
    << None, PyInt(10), PyStr("ab"),
       PyList(<<PyInt(10), PyList(<<>>), PyDict(<<KV("k", PyList(<<PyStr("a")>>))>>)>>),
       PyDict(<<KV("name", PyStr("a")), KV("tags", PyList(<<PyInt(1), PyInt(2)>>))>>),
       KeyOf("a"), KeyOf("b"), KeyOf("zz"),
       Env("AK_USER", None), Env("AK_GROUP", PyStr("dflt")),
       Context("seq", None), Context("missing", PyInt(0)),
       ForItem(0), ForItemIndex(0), ForItem(1), ForItemIndex(1), ForItemIndex(-1),
       ForGroups, ForOrder, ForOuter, ForInner, ForGuarded, ForDeep,
       ForEmpty, ForKeys, ForTags,
       Condition(AND, <<ForArg>>),
       Condition(<<"x", "O", "r">>, <<PyBool(TRUE), KeyOf("a"), PyInt(0)>>),
       Condition(<<"E", "Q">>, <<PyBool(TRUE)>>),
       Condition(<<"n", "o", "r">>, <<>>),
       FindUser, FindBadField, FindByTag,
       Format(<<"%s", "-", "%d">>, <<KeyOf("a"), PyInt(3)>>),
       If(PyBool(FALSE), FindBadField, PyInt(42)),
       If(KeyOf("a"), PyDict(<<KV("pk", FindUser)>>), PyList(<<KeyOf("zz")>>)),
       If(Context("seq", None), ForItem(0), FindByTag),
       If(Condition(OR, <<Context("seq", None)>>),
          PyList(<<Env("AK_USER", None)>>), ForOrder),
       If(PyInt(0), KeyOf("b"), If(PyStr("x"), PyStr("y"), KeyOf("zz"))),
       PyDict(<<KV("first", ForInner), KV("second", ForItem(0))>>),
       PyList(<<KeyOf("b"), ForGroups>>) >>

ValueIds == 1..Len(Values)

\* ---------------------------------------------------------------- actions

\* Nothing is allocated where no container is looked at.
NoMem ==
    [heap |-> <<>>, input |-> None, original |-> None, result |-> None,
     resolved |-> FALSE, writes |-> 0]

Init ==
    /\ context \in {[seq |-> SeqOfLen(n)] : n \in 0..MaxLen}
    /\ instance = [e \in EntryIds |-> None]
    /\ pos = 1
    /\ tag_contexts = [e \in EntryIds |-> <<>>]
    /\ current_context = [f \in ForOids |-> None]
    /\ last = [op |-> "none"]
    /\ mem = NoMem

RECURSIVE SumLen(_, _)
SumLen(stacks, e) == IF e = 0 THEN 0 ELSE Len(stacks[e]) + SumLen(stacks, e - 1)

\* any(resolved)
AnyTruthy(val) == PyBool(\E i \in 1..Len(val.items) : Truthy(val.items[i]))

\* all(resolved)
AllTruthy(val) == PyBool(\A i \in 1..Len(val.items) : Truthy(val.items[i]))

\* str(x)
ToStr(x) ==
    CASE x.tag = "str" -> x
      [] x.tag = "int" -> PyStr(ToString(x.n))
      [] x.tag = "None" -> PyStr("None")
      [] OTHER -> PyStr("<object>")

\* BlueprintEntryDesiredState(x): the member with this value, or ValueError.
IsDesiredState(x) ==
    \/ x.tag = "BlueprintEntryDesiredState"
    \/ x.tag = "str" /\ x.s \in DesiredStateValues

\* What each accessor makes of the resolved value r of its field.
Accessed(op, r) ==
    IF r.exc # NoExc THEN [val |-> None, exc |-> r.exc]
    ELSE CASE op = "get_state" ->
                IF IsDesiredState(r.val)
                THEN [val |-> BlueprintEntryDesiredState(r.val.s), exc |-> NoExc]
                ELSE [val |-> None, exc |-> ValueError]
           [] op = "get_model" -> [val |-> ToStr(r.val), exc |-> NoExc]
           [] op = "check_all_conditions_match" ->
                [val |-> AllTruthy(r.val), exc |-> NoExc]
           [] OTHER -> [val |-> r.val, exc |-> NoExc]

\* The call used up the sequence it iterated over in document.context.
Finish_consumes(e, op, value, r) ==
    /\ e \in {1, pos}
    /\ IF last.op \in {"none", "materialize", "skip"} THEN TRUE ELSE last.moved
    /\ tag_contexts' = [tag_contexts EXCEPT ![e] = r.st.tag_contexts]
    /\ SumLen(tag_contexts', Len(Entries)) <= MaxStack
    /\ current_context' = r.st.current_context
    /\ context' = [context EXCEPT !.seq = SeqOfLen(0)]
    /\ last' = [op |-> op, entry |-> e, value |-> value,
                val |-> Accessed(op, r).val, exc |-> Accessed(op, r).exc,
                log |-> r.st.log, moved |-> TRUE]
    /\ UNCHANGED <<instance, pos, mem>>

\* A top-level call ended as r.  The reconciler works on one entry after the
\* other, so the caller is entry pos, or the first entry called once more after
\* later entries were applied; the entry keeps the stack and the For objects
\* keep the pairs the call left, and the caller gets val or exc.
\* A call that left the stack and the pairs as it found them is not followed
\* up: nothing reads last, so what follows it follows the state before it too.
Finish(e, op, value, r) ==
    /\ e \in {1, pos}
    /\ IF last.op \in {"none", "materialize", "skip"} THEN TRUE ELSE last.moved
    /\ tag_contexts' = [tag_contexts EXCEPT ![e] = r.st.tag_contexts]
    /\ SumLen(tag_contexts', Len(Entries)) <= MaxStack
    /\ current_context' = r.st.current_context
    /\ last' = [op |-> op, entry |-> e, value |-> value,
                val |-> Accessed(op, r).val, exc |-> Accessed(op, r).exc,
                log |-> r.st.log,
                moved |-> \/ r.st.tag_contexts # tag_contexts[e]
                          \/ r.st.current_context # current_context]
    /\ UNCHANGED <<context, instance, pos, mem>>

\* entry.tag_resolver(value, blueprint), called from outside
TagResolverCall(e, v) ==
    Finish(e, "tag_resolver", Values[v], tag_resolver(e, Values[v], CallState(e)))

\* BlueprintEntry.get_attrs
get_attrs(e) ==
    Finish(e, "get_attrs", Entries[e].attrs,
           tag_resolver(e, Entries[e].attrs, CallState(e)))

\* BlueprintEntry.get_identifiers
get_identifiers(e) ==
    Finish(e, "get_identifiers", Entries[e].identifiers,
           tag_resolver(e, Entries[e].identifiers, CallState(e)))

\* BlueprintEntry.get_state
get_state(e) ==
    Finish(e, "get_state", Entries[e].state,
           tag_resolver(e, Entries[e].state, CallState(e)))

\* BlueprintEntry.get_model
get_model(e) ==
    Finish(e, "get_model", Entries[e].model,
           tag_resolver(e, Entries[e].model, CallState(e)))

\* BlueprintEntry.check_all_conditions_match
check_all_conditions_match(e) ==
    Finish(e, "check_all_conditions_match", PyList(Entries[e].conditions),
           tag_resolver(e, PyList(Entries[e].conditions), CallState(e)))

\* What the reconciler learns from entry.check_all_conditions_match before it
\* applies entry e.
ConditionsMatch(e) ==
    Accessed("check_all_conditions_match",
             tag_resolver(e, PyList(Entries[e].conditions), CallState(e)))

\* The external reconciler found the conditions of entry pos to match, applied
\* the entry and stored the instance in it.
Materialize ==
    /\ pos <= Len(Entries)
    /\ ConditionsMatch(pos) = [val |-> PyBool(TRUE), exc |-> NoExc]
    /\ instance' = [instance EXCEPT ![pos] = InstanceOf(pos)]
    /\ pos' = pos + 1
    /\ last' = [op |-> "materialize", entry |-> pos]
    /\ UNCHANGED <<context, tag_contexts, current_context, mem>>

\* The external reconciler found the conditions of entry pos not to match, left
\* the entry unapplied and went on.
Skip ==
    /\ pos <= Len(Entries)
    /\ ConditionsMatch(pos) = [val |-> PyBool(FALSE), exc |-> NoExc]
    /\ pos' = pos + 1
    /\ last' = [op |-> "skip", entry |-> pos]
    /\ UNCHANGED <<context, instance, tag_contexts, current_context, mem>>

Next ==
    \/ \E e \in EntryIds, v \in ValueIds : TagResolverCall(e, v)
    \/ \E e \in EntryIds : get_attrs(e)
    \/ \E e \in EntryIds : get_identifiers(e)
    \/ \E e \in EntryIds : get_state(e)
    \/ \E e \in EntryIds : get_model(e)
    \/ \E e \in EntryIds : check_all_conditions_match(e)
    \/ Materialize
    \/ Skip

Spec == Init /\ [][Next]_vars

\* ------------------------------------------- Condition over drawn arguments

\* The lower case of a letter of the keys.
Small(c) ==
    CASE c = "A" -> "a"
      [] c = "D" -> "d"
      [] c = "N" -> "n"
      [] c = "O" -> "o"
      [] c = "R" -> "r"
      [] c = "X" -> "x"

\* mode spells key, in whatever case each letter is.
Spells(mode, key) ==
    /\ Len(mode) = Len(key)
    /\ \A i \in 1..Len(key) : mode[i] \in {key[i], Small(key[i])}

\* Every spelling of a key: any of its letters in lower case.
SpellingsOf(key) ==
    {[i \in 1..Len(key) |-> IF i \in lower THEN Small(key[i]) ELSE key[i]] :
        lower \in SUBSET (1..Len(key))}

Spellings == UNION {SpellingsOf(key) : key \in COMPARATORS}

OtherModes ==
    { <<>>, <<"E", "Q">>, <<"X", "O">>, <<"a", "n", "d", "s">>, <<"O", "R", " ">>,
      <<"N", "O", "T">> }

Modes == Spellings \cup OtherModes

\* The arguments drawn: truthy and falsy plain values and a tag whose value is
\* truthy or falsy with the document's context.
ArgValues == {PyBool(TRUE), PyBool(FALSE), PyInt(0), Context("seq", None)}

ArgLists == UNION {[1..n -> ArgValues] : n \in 0..MaxArgs}

ConditionDone(mode, args, r) ==
    /\ last' = [op |-> "Condition.resolve", mode |-> mode, args |-> args,
                val |-> r.val, exc |-> r.exc]
    /\ UNCHANGED <<context, instance, pos, tag_contexts, current_context, mem>>

\* Condition(mode, args).resolve(entry, blueprint) on the first entry
ConditionCall(mode, args) ==
    ConditionDone(mode, args,
                  Condition_resolve(1, Condition(mode, args), CallState(1)))

\* One call in each behaviour: a call reads nothing an earlier call wrote.
NextCondition ==
    /\ last.op = "none"
    /\ \E mode \in Modes, args \in ArgLists : ConditionCall(mode, args)

SpecCondition == Init /\ [][NextCondition]_vars

\* ---------------------------------------------- Format over drawn arguments

Pieces == {"%s", "%d", "%%", "-"}

Templates == UNION {[1..n -> Pieces] : n \in 0..MaxPieces}

\* Values that fit "%s" only, values that fit "%d" too, and a tag.
FormatArgValues == {PyStr("a"), PyInt(3), PyBool(TRUE), Env("AK_USER", None)}

FormatArgLists == UNION {[1..n -> FormatArgValues] : n \in 0..MaxArgs}

FormatDone(format_string, args, r) ==
    /\ last' = [op |-> "Format.resolve", format_string |-> format_string,
                args |-> args, val |-> r.val, exc |-> r.exc]
    /\ UNCHANGED <<context, instance, pos, tag_contexts, current_context, mem>>

\* Format(format_string, args).resolve(entry, blueprint) on the first entry
FormatCall(format_string, args) ==
    FormatDone(format_string, args,
               Format_resolve(1, Format(format_string, args), CallState(1)))

\* One call in each behaviour: a call reads nothing an earlier call wrote.
NextFormat ==
    /\ last.op = "none"
    /\ \E format_string \in Templates, args \in FormatArgLists :
           FormatCall(format_string, args)

SpecFormat == Init /\ [][NextFormat]_vars

\* ------------------------------------------ get_attrs over drawn serializers

\* Field names are spelled out, so that the ending of a name is computed.
FieldNames == {<<"p", "k">>, <<"s", "e", "t">>, <<"a", "_", "s", "e", "t">>,
               <<"_", "s", "e", "t", "s">>}

Initials == {None, PyInt(0), PyBool(FALSE)}

DataValues == {None, PyInt(0), PyInt(1)}

\* a == b of Python on the drawn values: a bool is the number 0 or 1.
PyEq(a, b) ==
    IF a.tag \in {"int", "bool"} /\ b.tag \in {"int", "bool"}
    THEN (IF a.tag = "bool" THEN (IF a.b THEN 1 ELSE 0) ELSE a.n)
             = (IF b.tag = "bool" THEN (IF b.b THEN 1 ELSE 0) ELSE b.n)
    ELSE a = b

\* str.endswith
endswith(name, suffix) ==
    /\ Len(name) >= Len(suffix)
    /\ SubSeq(name, Len(name) - Len(suffix) + 1, Len(name)) = suffix

\* data.pop(field_name, None)
pop(data, field_name) == [k \in DOMAIN data \ {field_name} |-> data[k]]

\* data.get(field_name, None)
get(data, field_name) == IF field_name \in DOMAIN data THEN data[field_name] ELSE None

pop_if(cond, data, field_name) == IF cond THEN pop(data, field_name) ELSE data

\* The loop body without its last test.
get_attrs_field_keeps_set(field, data) ==
    IF field.field_name \notin DOMAIN data THEN data
    ELSE pop_if(PyEq(field.initial,
                     get(pop_if(field.read_only, data, field.field_name), field.field_name)),
                pop_if(field.read_only, data, field.field_name), field.field_name)

\* The body of the loop over serializer.fields.items()
get_attrs_field(field, data) ==
    IF field.field_name \notin DOMAIN data THEN data
    ELSE pop_if(endswith(field.field_name, <<"_", "s", "e", "t">>),
                pop_if(PyEq(field.initial,
                            get(pop_if(field.read_only, data, field.field_name),
                                field.field_name)),
                       pop_if(field.read_only, data, field.field_name),
                       field.field_name),
                field.field_name)

RECURSIVE get_attrs_fields(_, _, _)
get_attrs_fields(fields, i, data) ==
    IF i > Len(fields) THEN data
    ELSE get_attrs_fields(fields, i + 1, get_attrs_field(fields[i], data))

\* get_attrs(obj), of the module: obj is given by the fields of its serializer
\* and by serializer.data
get_attrs_obj(fields, data) == get_attrs_fields(fields, 1, data)

\* The fields of a serializer have different names.
NameSeqs ==
    UNION {{names \in [1..n -> FieldNames] :
                \A i, j \in 1..n : names[i] = names[j] => i = j} : n \in 0..MaxFields}

Serializer(names, read_only, initial) ==
    [i \in 1..Len(names) |->
        [field_name |-> names[i], read_only |-> read_only[i], initial |-> initial[i]]]

NamesOf(names) == {names[i] : i \in 1..Len(names)}

AttrsCall(fields, data) ==
    /\ last' = [op |-> "get_attrs", fields |-> fields, data |-> data,
                val |-> get_attrs_obj(fields, data)]
    /\ UNCHANGED <<context, instance, pos, tag_contexts, current_context, mem>>

\* One call in each behaviour: get_attrs keeps nothing between calls.
NextAttrs ==
    /\ last.op = "none"
    /\ \E names \in NameSeqs :
         \E read_only \in [1..Len(names) -> BOOLEAN],
            initial \in [1..Len(names) -> Initials],
            present \in SUBSET NamesOf(names) :
           \E data \in [present -> DataValues] :
               AttrsCall(Serializer(names, read_only, initial), data)

SpecAttrs == Init /\ [][NextAttrs]_vars

\* --------------------------------------------- containers and their copies

\* Lists and dicts are objects: mem.heap holds one cell for each, a slot of a
\* cell holds a scalar or the address of another cell.
Ref(addr) == [tag |-> "ref", addr |-> addr]

IsRef(slot) == slot.tag = "ref"

ItemSlot(cell, i) == IF cell.tag = "dict" THEN cell.items[i].value ELSE cell.items[i]

WithSlot(cell, i, slot) == IF cell.tag = "dict" THEN KV(cell.items[i].key, slot) ELSE slot

\* The loader's objects for a value without tags: one cell for each container.
RECURSIVE Store(_, _), StoreItems(_, _, _, _)
Store(h, v) ==
    IF v.tag \in {"list", "dict"} THEN StoreItems(h, v, 1, <<>>)
    ELSE [heap |-> h, slot |-> v]

StoreNext(v, i, acc, r) ==
    StoreItems(r.heap, v, i + 1, Append(acc, WithSlot(v, i, r.slot)))

StoreItems(h, v, i, acc) ==
    IF i > Len(v.items)
    THEN [heap |-> Append(h, [tag |-> v.tag, items |-> acc]), slot |-> Ref(Len(h) + 1)]
    ELSE StoreNext(v, i, acc, Store(h, InnerValue(v, i)))

\* copy.deepcopy(x, memo): a scalar is returned as it is, a container is copied
\* once, into a new cell that memo remembers, item by item.
RECURSIVE deepcopy_mem(_, _, _), deepcopy_items(_, _, _, _, _)

\* "y = x"
deepcopy_alias(h, slot, memo) == [heap |-> h, slot |-> slot, memo |-> memo]

deepcopy_mem(h, slot, memo) ==
    IF ~IsRef(slot) THEN [heap |-> h, slot |-> slot, memo |-> memo]
    ELSE IF slot.addr \in DOMAIN memo
    THEN [heap |-> h, slot |-> Ref(memo[slot.addr]), memo |-> memo]
    ELSE deepcopy_items(Append(h, [tag |-> h[slot.addr].tag, items |-> <<>>]),
                        slot.addr, 1, Len(h) + 1,
                        (slot.addr :> (Len(h) + 1)) @@ memo)

deepcopy_next(from, i, to, r) ==
    deepcopy_items([r.heap EXCEPT ![to].items = Append(@, WithSlot(r.heap[from], i, r.slot))],
                   from, i + 1, to, r.memo)

deepcopy_items(h, from, i, to, memo) ==
    IF i > Len(h[from].items) THEN [heap |-> h, slot |-> Ref(to), memo |-> memo]
    ELSE deepcopy_next(from, i, to, deepcopy_mem(h, ItemSlot(h[from], i), memo))

\* tag_resolver on a value without tags: val = deepcopy(value), then
\* val[key] = self.tag_resolver(inner_value, blueprint) for each item of value.
RECURSIVE tag_resolver_mem(_, _), resolve_items_mem(_, _, _, _)

resolve_items_mem_next(value, val, i, r) ==
    resolve_items_mem([r.heap EXCEPT ![val].items[i] = WithSlot(r.heap[val], i, r.slot)],
                      value, val, i + 1)

resolve_items_mem(h, value, val, i) ==
    IF i > Len(h[value].items) THEN [heap |-> h, slot |-> Ref(val)]
    ELSE resolve_items_mem_next(value, val, i, tag_resolver_mem(h, ItemSlot(h[value], i)))

tag_resolver_items_mem(slot, c) ==
    IF IsRef(slot) THEN resolve_items_mem(c.heap, slot.addr, c.slot.addr, 1)
    ELSE [heap |-> c.heap, slot |-> c.slot]

tag_resolver_mem(h, slot) ==
    tag_resolver_items_mem(slot, deepcopy_mem(h, slot, <<>>))

\* The values without tags that get resolved.
TagFree ==
    { PyInt(10), PyList(<<>>),
      PyList(<<PyInt(10), PyList(<<>>), PyDict(<<KV("k", PyList(<<PyStr("a")>>))>>)>>),
      PyDict(<<KV("name", PyStr("a")), KV("tags", PyList(<<PyInt(1), PyInt(2)>>))>>) }

Held(v, r) ==
    [heap |-> r.heap, input |-> r.slot, original |-> v, result |-> None,
     resolved |-> FALSE, writes |-> 0]

\* A list holding the same list twice, as an alias in the document gives.
SharedItem ==
    [heap |-> << [tag |-> "list", items |-> <<PyInt(1)>>],
                 [tag |-> "list", items |-> <<Ref(1), Ref(1)>>] >>,
     input |-> Ref(2),
     original |-> PyList(<<PyList(<<PyInt(1)>>), PyList(<<PyInt(1)>>)>>),
     result |-> None, resolved |-> FALSE, writes |-> 0]

InitCopy ==
    /\ context = [seq |-> SeqOfLen(0)]
    /\ instance = [e \in EntryIds |-> None]
    /\ pos = 1
    /\ tag_contexts = [e \in EntryIds |-> <<>>]
    /\ current_context = [f \in ForOids |-> None]
    /\ last = [op |-> "none"]
    /\ mem \in {Held(v, Store(<<>>, v)) : v \in TagFree} \cup {SharedItem}

CopyResolved(r) ==
    /\ mem' = [mem EXCEPT !.heap = r.heap, !.result = r.slot, !.resolved = TRUE]
    /\ last' = [op |-> "tag_resolver"]
    /\ UNCHANGED <<context, instance, pos, tag_contexts, current_context>>

\* entry.tag_resolver(value, blueprint) on the value held in memory
CopyResolve ==
    /\ ~mem.resolved
    /\ CopyResolved(tag_resolver_mem(mem.heap, mem.input))

\* The cells a slot leads to.
RECURSIVE ReachFrom(_, _, _)
RefsOf(h, a) ==
    {ItemSlot(h[a], i).addr : i \in {j \in 1..Len(h[a].items) : IsRef(ItemSlot(h[a], j))}}

ReachFrom(h, frontier, seen) ==
    IF frontier \subseteq seen THEN seen
    ELSE ReachFrom(h, UNION {RefsOf(h, a) : a \in frontier}, seen \cup frontier)

Reach(h, slot) == IF IsRef(slot) THEN ReachFrom(h, {slot.addr}, {}) ELSE {}

Written == {PyInt(99), PyStr("changed")}

\* The caller writes to the value it got: result[i] = x, or result.append(x)
\* one past the end of a list, on the value or on a container inside it.
Mutate(a, i, x) ==
    /\ mem.resolved
    /\ mem.writes < MaxWrites
    /\ a \in Reach(mem.heap, mem.result)
    /\ \/ /\ i \in 1..Len(mem.heap[a].items)
          /\ mem' = [mem EXCEPT !.heap[a].items[i] = WithSlot(mem.heap[a], i, x),
                                !.writes = @ + 1]
       \/ /\ i = Len(mem.heap[a].items) + 1
          /\ mem.heap[a].tag = "list"
          /\ mem' = [mem EXCEPT !.heap[a].items = Append(@, x), !.writes = @ + 1]
    /\ last' = [op |-> "mutate", addr |-> a, index |-> i]
    /\ UNCHANGED <<context, instance, pos, tag_contexts, current_context>>

NextCopy ==
    \/ CopyResolve
    \/ \E a \in 1..Len(mem.heap) :
           \E i \in 1..(Len(mem.heap[a].items) + 1), x \in Written : Mutate(a, i, x)

SpecCopy == InitCopy /\ [][NextCopy]_vars

\* ------------------------------------- tags that hand out document objects

\* The containers of the document: blueprint.context and the literal iterable
\* of a For tag.
DocumentContext ==
    PyDict(<<KV("seq", PyList(<<PyInt(1), PyList(<<PyInt(2)>>)>>)),
             KV("name", PyStr("a"))>>)

DocumentIterable == PyList(<<PyList(<<PyInt(3)>>), PyInt(4)>>)

DocumentObjects == PyList(<<DocumentContext, DocumentIterable>>)

DocumentHeap == Store(<<>>, DocumentObjects)

ContextSlot == ItemSlot(DocumentHeap.heap[DocumentHeap.slot.addr], 1)

IterableSlot == ItemSlot(DocumentHeap.heap[DocumentHeap.slot.addr], 2)

KeysAt(cell, key) == {i \in 1..Len(cell.items) : cell.items[i].key = key}

\* Context.resolve: "value = self.default; if self.key in blueprint.context:
\* value = blueprint.context[self.key]"; the object itself is returned.
Context_resolve_mem(h, value) ==
    [heap |-> h,
     slot |-> IF KeysAt(h[ContextSlot.addr], value.key) # {}
              THEN h[ContextSlot.addr].items[
                       CHOOSE i \in KeysAt(h[ContextSlot.addr], value.key) : TRUE].value
              ELSE value.default]

\* entry.tag_resolver(self.item_body) for a body that is one accessor:
\* ForItem.resolve returns the item of the pair, ForItemIndex.resolve its index.
item_body_mem(item_body, index, item) ==
    IF item_body.tag = "ForItem" THEN item ELSE PyInt(index)

\* For.resolve over a literal iterable: a new list of the resolved bodies.
RECURSIVE For_loop_mem(_, _, _, _)
For_loop_mem(h, value, i, result) ==
    IF i > Len(h[value.iterable.addr].items) THEN [heap |-> h, slot |-> Ref(result)]
    ELSE For_loop_mem(
             [h EXCEPT ![result].items =
                 Append(@, item_body_mem(value.item_body, i - 1,
                                         ItemSlot(h[value.iterable.addr], i)))],
             value, i + 1, result)

For_resolve_mem(h, value) ==
    For_loop_mem(Append(h, [tag |-> "list", items |-> <<>>]), value, 1, Len(h) + 1)

\* tag_resolver on a tag: "val = value.resolve(self, blueprint)" replaces the
\* copy made first, and the loops over dict and list items do not run.
tag_resolver_tag_mem(h, value) ==
    IF value.tag = "Context" THEN Context_resolve_mem(h, value)
    ELSE For_resolve_mem(h, value)

\* The tags that get resolved.
AliasTags ==
    { Context("seq", None), Context("name", None), Context("none", PyStr("d")),
      For(1, IterableSlot, ForItem(0)), For(1, IterableSlot, ForItemIndex(0)) }

HeldTag(value) ==
    [heap |-> DocumentHeap.heap, input |-> DocumentHeap.slot,
     original |-> DocumentObjects, result |-> None, resolved |-> FALSE,
     writes |-> 0, value |-> value]

InitAlias ==
    /\ context = [seq |-> SeqOfLen(0)]
    /\ instance = [e \in EntryIds |-> None]
    /\ pos = 1
    /\ tag_contexts = [e \in EntryIds |-> <<>>]
    /\ current_context = [f \in ForOids |-> None]
    /\ last = [op |-> "none"]
    /\ mem \in {HeldTag(value) : value \in AliasTags}

\* entry.tag_resolver(value, blueprint) on the tag held in memory
AliasResolve ==
    /\ ~mem.resolved
    /\ CopyResolved(tag_resolver_tag_mem(mem.heap, mem.value))

NextAlias ==
    \/ AliasResolve
    \/ \E a \in 1..Len(mem.heap) :
           \E i \in 1..(Len(mem.heap[a].items) + 1), x \in Written : Mutate(a, i, x)

SpecAlias == InitAlias /\ [][NextAlias]_vars

\* ----------------------------------------------------- reading a call back

CallOps ==
    {"tag_resolver", "get_attrs", "get_identifiers", "get_state", "get_model",
     "check_all_conditions_match"}

\* The last step was a resolution call.
IsCall == last.op \in CallOps

\* What the last call logged; nothing after a step of the reconciler.
Events == IF IsCall THEN last.log ELSE <<>>

EventsOf(kind) == {k \in 1..Len(Events) : Events[k].ev = kind}

\* The tags inside a value, at any depth.
RECURSIVE TagsIn(_)
TagsOfSeq(items) == UNION {TagsIn(items[i]) : i \in 1..Len(items)}

TagsIn(v) ==
    CASE v.tag = "list" -> TagsOfSeq(v.items)
      [] v.tag = "dict" -> UNION {TagsIn(v.items[i].value) : i \in 1..Len(v.items)}
      [] v.tag \in {"KeyOf", "ForItem", "ForItemIndex"} -> {v}
      [] v.tag \in {"Env", "Context"} -> {v} \cup TagsIn(v.default)
      [] v.tag \in {"Condition", "Format"} -> {v} \cup TagsOfSeq(v.args)
      [] v.tag = "Find" ->
            {v} \cup UNION {TagsOfSeq(v.conditions[i]) : i \in 1..Len(v.conditions)}
      [] v.tag = "If" ->
            {v} \cup TagsIn(v.condition) \cup TagsIn(v.when_true) \cup TagsIn(v.when_false)
      [] v.tag = "For" -> {v} \cup TagsIn(v.iterable) \cup TagsIn(v.item_body)
      [] OTHER -> {}

\* ------------------------------------------------------------------ claims

\* The entries with this id that hold an instance.
Materialized(id_from) ==
    {i \in EntryIds : Entries[i].id = PyStr(id_from) /\ instance[i] # None}

Least(S) == CHOOSE i \in S : \A j \in S : i <= j

\* The key section 4.2 of the specification has KeyOf give entry e for the
\* instance of entry i: the alternate key of a policy-binding-model instance
\* when the resolved model name of e denotes the policy binding type, the
\* primary key otherwise.
ResolvedModel(e) ==
    Accessed("get_model", tag_resolver(e, Entries[e].model, CallState(e))).val

KeyFor(e, i) ==
    IF instance[i].is_pbm /\ Lower(ResolvedModel(e).s) = PolicyBindingName
    THEN instance[i].pbm_uuid
    ELSE instance[i].pk

IsKeyOfCall == last.op = "tag_resolver" /\ last.value.tag = "KeyOf"

\* C1: KeyOf(id_from) gives the key of the first entry, in declared order, that
\* has this id and an instance, and raises EntryInvalidError while no entry with
\* this id has one: it fails at every point before the reference is set and
\* succeeds at every point after it.
C1_KeyOfFollowsReference ==
    IsKeyOfCall =>
        IF Materialized(last.value.id_from) = {}
        THEN last.exc = EntryInvalidError
        ELSE /\ last.exc = NoExc
             /\ last.val = KeyFor(last.entry, Least(Materialized(last.value.id_from)))

\* What a body holding no tag but ForItem(0) and ForItemIndex(0) is when the
\* pair is (index, item).
RECURSIVE Subst(_, _, _)
Subst(v, index, item) ==
    CASE v.tag = "ForItem" -> item
      [] v.tag = "ForItemIndex" -> PyInt(index)
      [] v.tag = "list" -> PyList([k \in 1..Len(v.items) |-> Subst(v.items[k], index, item)])
      [] v.tag = "dict" ->
            PyDict([k \in 1..Len(v.items) |->
                        KV(v.items[k].key, Subst(v.items[k].value, index, item))])
      [] OTHER -> v

ReadsOnlyItsLoop(body) == TagsIn(body) \subseteq {ForItem(0), ForItemIndex(0)}

\* The For calls that were reached through tag_resolver and returned.
ForReturns == {k \in EventsOf("for") : Events[k].through}

\* C2: a For reached through the resolver over a sequence of n items returns n
\* elements in iteration order, the i-th being the body resolved under the pair
\* (i, s[i]): ForItemIndex(0) gives i, ForItem(0) gives s[i]; nothing iterated
\* gives the empty sequence.
C2_ForMapsBodyOverItems ==
    \A k \in ForReturns :
        /\ Len(Events[k].result) = Len(Events[k].items)
        /\ ReadsOnlyItsLoop(Events[k].item_body) =>
              \A i \in 1..Len(Events[k].items) :
                  Events[k].result[i] =
                      Subst(Events[k].item_body, i - 1, Events[k].items[i])

C2_Reached ==
    \E k \in ForReturns :
        /\ Len(Events[k].items) >= 2
        /\ {ForItem(0), ForItemIndex(0)} \subseteq TagsIn(Events[k].item_body)
        /\ last.exc = NoExc

\* The ForItem and ForItemIndex calls made at a depth below the number of For
\* objects whose tag_resolver call is running.
ItemsInLoops ==
    {k \in EventsOf("item") :
        Events[k].depth >= 0 /\ Events[k].depth < Len(Events[k].active)}

\* C3: under nested For tags, ForItem(d) and ForItemIndex(d) return the
\* current item and index of the d-th innermost active For, for every d below
\* the number of active For tags, in every iteration.
C3_DepthCountsFromInnermost ==
    \A k \in ItemsInLoops :
        /\ Events[k].exc = NoExc
        /\ Events[k].pair.tag = "tuple"
        /\ Events[k].val = IF Events[k].tag = "ForItem"
                           THEN Events[k].pair.item
                           ELSE Events[k].pair.index

C3_Reached ==
    \E k \in ItemsInLoops, j \in ItemsInLoops :
        /\ Events[k].depth = 1 /\ Events[j].depth = 0
        /\ Events[k].active = Events[j].active
        /\ Events[k].tag = "ForItem" /\ Events[j].tag = "ForItem"
        /\ Events[k].val # Events[j].val
        /\ Len(Events[k].active) >= 3

\* The branch an If call did not select, once its condition had a value.
Unselected(ev) ==
    IF Truthy(ev.condition) THEN ev.node.when_false ELSE ev.node.when_true

Selected(ev) ==
    IF Truthy(ev.condition) THEN ev.node.when_true ELSE ev.node.when_false

\* The tags that sit in the unselected branch and nowhere else in the If.
OnlyUnselected(ev) ==
    TagsIn(Unselected(ev)) \ (TagsIn(Selected(ev)) \cup TagsIn(ev.node.condition))

\* The resolve calls and store queries made within an If call that ended at q.
Within(q) == {k \in (Events[q].begin + 1)..(q - 1) : Events[k].ev \in {"resolve", "query"}}

IfEnds == {q \in EventsOf("If") : Events[q].raised = NoExc}

\* C4: If evaluates its condition once, resolves only the selected branch
\* through the resolver and returns that result; no tag of the unselected
\* branch is resolved, so none of its lookups, queries or errors occurs.
C4_IfResolvesOnlySelectedBranch ==
    \A q \in IfEnds :
        /\ \A k \in Within(q) :
               Events[k].ev = "resolve" => Events[k].node \notin OnlyUnselected(Events[q])
        /\ IsYAMLTag(Events[q].node.condition)
              /\ Events[q].node.condition \notin TagsIn(Selected(Events[q])) =>
                 Cardinality({k \in Within(q) :
                     /\ Events[k].ev = "resolve"
                     /\ Events[k].node = Events[q].node.condition}) = 1
        /\ TagsIn(Selected(Events[q])) = {} =>
              /\ Events[q].exc = NoExc
              /\ Events[q].val = Selected(Events[q])
              /\ \A k \in Within(q) :
                     \/ Events[k].ev = "resolve"
                        /\ Events[k].node \in TagsIn(Events[q].node.condition)
                     \/ Events[k].ev = "query"
                        /\ \E t \in TagsIn(Events[q].node.condition) :
                               t.tag = "Find" /\ t.model_name = Events[k].model_name

C4_Reached ==
    \E q \in IfEnds :
        /\ \E t \in OnlyUnselected(Events[q]) : t.tag = "Find"
        /\ Events[q].val = PyInt(42)
        /\ Events[q].exc = NoExc

IsConditionCall == last.op = "Condition.resolve"

\* Whether an argument drawn for a Condition is true once resolved.
TruthOf(arg) ==
    IF arg.tag = "Context" THEN context[arg.key].items # <<>>
    ELSE IF arg.tag = "bool" THEN arg.b
    ELSE arg.n # 0

TrueArgs(args) == Cardinality({i \in 1..Len(args) : TruthOf(args[i])})

\* What section 4.6 of the specification has each mode give.
ModeGives(key, args) ==
    CASE key = AND -> TrueArgs(args) = Len(args)
      [] key = NAND -> TrueArgs(args) # Len(args)
      [] key = OR -> TrueArgs(args) >= 1
      [] key = NOR -> TrueArgs(args) = 0
      [] key = XOR -> TrueArgs(args) % 2 = 1
      [] key = XNOR -> TrueArgs(args) % 2 = 0

KeysSpelled(mode) == {key \in COMPARATORS : Spells(mode, key)}

\* C5: for each of the six modes in any letter case and any non-empty args,
\* Condition gives AND = all true, OR = some true, NAND and NOR their negations,
\* XOR = an odd number true, XNOR its negation; with no args or an unrecognized
\* mode it raises EntryInvalidError.
C5_ConditionTruthTable ==
    IsConditionCall =>
        IF last.args = <<>> \/ KeysSpelled(last.mode) = {}
        THEN last.exc = EntryInvalidError
        ELSE /\ last.exc = NoExc
             /\ \A key \in KeysSpelled(last.mode) :
                    last.val = PyBool(ModeGives(key, last.args))

C5_Reached ==
    /\ IsConditionCall
    /\ last.mode = <<"x", "O", "r">>
    /\ Len(last.args) = 3 /\ TrueArgs(last.args) = 3
    /\ last.val = PyBool(TRUE)

\* C6: whatever calls came before, failed ones included, ForItem(d) or
\* ForItemIndex(d) resolved while fewer than d+1 For tags are being resolved
\* raises EntryInvalidError and returns no value.
C6_ItemOutsideLoopRaises ==
    \A k \in EventsOf("item") :
        Events[k].resolving < Events[k].depth + 1 =>
            Events[k].exc = EntryInvalidError

AccessorOps == CallOps \ {"tag_resolver"}

\* C7: a tag_resolver call on a For leaves the entry's stack as it found it,
\* whether it returns or raises, so the stack is empty after every accessor
\* call.
C7_StackRestoredOnEveryExit ==
    /\ \A k \in EventsOf("leave") : Events[k].left = Events[k].entered
    /\ last.op \in AccessorOps => tag_contexts[last.entry] = <<>>

\* C8: while no resolve call of a For is running, its current pair is absent.
C8_PairAbsentBetweenCalls ==
    \A f \in ForOids : current_context[f] = None

\* A call state no earlier call has touched.
Pristine ==
    [tag_contexts |-> <<>>, current_context |-> [f \in ForOids |-> None],
     log |-> <<>>, active |-> <<>>, resolving |-> <<>>, bodies |-> <<>>]

FirstOutcome == Accessed(last.op, tag_resolver(last.entry, last.value, Pristine))

\* C9: the outcome of a top-level call depends on the value, the document, the
\* environment and the store only: it equals the outcome the same call has when
\* no resolution call came before it.
C9_OutcomeIndependentOfEarlierCalls ==
    IsCall => last.val = FirstOutcome.val /\ last.exc = FirstOutcome.exc

\* The structure a slot holds: the value it would print as.
RECURSIVE Read(_, _)
Read(h, slot) ==
    IF ~IsRef(slot) THEN slot
    ELSE [tag |-> h[slot.addr].tag,
          items |-> [i \in 1..Len(h[slot.addr].items) |->
                        WithSlot(h[slot.addr], i, Read(h, ItemSlot(h[slot.addr], i)))]]

\* C10: tag_resolver on a value without tags returns a value structurally
\* equal to the input that shares no container with it and leaves the input
\* unchanged; writing to the result never changes the input.
C10_TagFreeCopyIsNotAliased ==
    mem.resolved =>
        /\ Read(mem.heap, mem.input) = mem.original
        /\ mem.writes = 0 => Read(mem.heap, mem.result) = mem.original
        /\ Reach(mem.heap, mem.result) \cap Reach(mem.heap, mem.input) = {}

C10_Reached ==
    /\ mem.resolved
    /\ mem.writes = MaxWrites
    /\ Cardinality(Reach(mem.heap, mem.input)) >= 3
    /\ Cardinality(Reach(mem.heap, mem.result)) >= 3
    /\ Read(mem.heap, mem.result) # mem.original

\* C11: every failure that leaves a tag's resolve or an accessor is an
\* EntryInvalidError; no TypeError, ValueError, KeyError, IndexError or
\* AttributeError reaches the caller.
C11_OnlyEntryInvalidEscapes ==
    IsCall => last.exc \in {NoExc, EntryInvalidError}

\* C12: what the resolver returns is concrete: it holds no tag object at any
\* depth, wherever the tag stood in the input.
C12_ResultHoldsNoTag ==
    IsCall /\ last.exc = NoExc => TagsIn(last.val) = {}

\* C15: when the entry KeyOf finds holds a policy-binding-model instance and
\* the referencing entry's resolved model name is the policy binding type,
\* also when that model is given as a tag, KeyOf returns the alternate key;
\* in every other case the primary key.
C15_KeyOfAlternateKey ==
    IsKeyOfCall /\ Materialized(last.value.id_from) # {} =>
        /\ last.exc = NoExc
        /\ last.val = KeyFor(last.entry, Least(Materialized(last.value.id_from)))

ConditionOutcome(e, i) == tag_resolver(e, Entries[e].conditions[i], Pristine)

ConditionIds(e) == 1..Len(Entries[e].conditions)

IsConditionsCall == last.op = "check_all_conditions_match"

\* C14: check_all_conditions_match resolves every element of conditions and
\* returns true exactly when every resolved element is truthy; no conditions
\* give true.
C14_ConditionsMatchIsAll ==
    IsConditionsCall /\ (\A i \in ConditionIds(last.entry) :
                             ConditionOutcome(last.entry, i).exc = NoExc) =>
        /\ last.exc = NoExc
        /\ last.val = PyBool(\A i \in ConditionIds(last.entry) :
                                 Truthy(ConditionOutcome(last.entry, i).val))
        /\ \A i \in ConditionIds(last.entry) :
               IsYAMLTag(Entries[last.entry].conditions[i]) =>
                   \E k \in EventsOf("resolve") :
                       Events[k].node = Entries[last.entry].conditions[i]

C14_Reached ==
    /\ IsConditionsCall
    /\ last.entry = 3
    /\ last.val = PyBool(TRUE)
    /\ Cardinality(EventsOf("resolve")) = 1

IsFormatCall == last.op = "Format.resolve"

\* What an argument drawn for a Format is once resolved.
FormatArg(arg) == IF arg.tag = "Env" THEN Environ[arg.key] ELSE arg

\* The conversions of a template, in order, as indices of its pieces.
ConversionsOf(pieces) == {i \in 1..Len(pieces) : pieces[i] \in {"%s", "%d"}}

\* The argument piece i takes: as many-th as there are conversions up to it.
ArgOf(pieces, i) == Cardinality({k \in ConversionsOf(pieces) : k <= i})

Fits(pieces, args) ==
    /\ Cardinality(ConversionsOf(pieces)) = Len(args)
    /\ \A i \in ConversionsOf(pieces) :
           pieces[i] = "%d" => FormatArg(args[ArgOf(pieces, i)]).tag \in {"int", "bool"}

\* The text piece i becomes.
Text(pieces, args, i) ==
    CASE pieces[i] = "%%" -> "%"
      [] pieces[i] = "-" -> "-"
      [] pieces[i] = "%d" ->
            IF FormatArg(args[ArgOf(pieces, i)]) = PyBool(TRUE) THEN "1" ELSE "3"
      [] pieces[i] = "%s" ->
            CASE FormatArg(args[ArgOf(pieces, i)]) = PyStr("a") -> "a"
              [] FormatArg(args[ArgOf(pieces, i)]) = PyStr("root") -> "root"
              [] FormatArg(args[ArgOf(pieces, i)]) = PyInt(3) -> "3"
              [] FormatArg(args[ArgOf(pieces, i)]) = PyBool(TRUE) -> "True"

RECURSIVE Joined(_, _, _)
Joined(pieces, args, i) ==
    IF i = 0 THEN "" ELSE Joined(pieces, args, i - 1) \o Text(pieces, args, i)

\* C16: Format resolves its tag arguments, takes the others literally and
\* returns the printf-style substitution into format_string; when the number
\* or the types of the arguments do not fit the placeholders it raises
\* EntryInvalidError.
C16_FormatSubstitutes ==
    IsFormatCall =>
        IF Fits(last.format_string, last.args)
        THEN /\ last.exc = NoExc
             /\ last.val = PyStr(Joined(last.format_string, last.args,
                                        Len(last.format_string)))
        ELSE last.exc = EntryInvalidError

C16_Reached ==
    /\ IsFormatCall
    /\ last.format_string = <<"%s", "-", "%d">>
    /\ last.args = <<Env("AK_USER", None), PyInt(3)>>
    /\ last.val = PyStr("root-3")

IsAttrsCall == last.op = "get_attrs"

\* The field of the serializer that has the name.
FieldOf(fields, name) ==
    fields[CHOOSE i \in 1..Len(fields) : fields[i].field_name = name]

\* The serialized value is the declared initial value: the same value, or the
\* same number written as a bool and as an int.
IsInitial(field, x) ==
    \/ field.initial = x
    \/ field.initial = PyBool(FALSE) /\ x = PyInt(0)

EndsWithSet(name) ==
    \E n \in 0..Len(name) : name = SubSeq(name, 1, n) \o <<"_", "s", "e", "t">>

Dropped(fields, data, name) ==
    \/ FieldOf(fields, name).read_only
    \/ IsInitial(FieldOf(fields, name), data[name])
    \/ EndsWithSet(name)

\* C17: get_attrs(obj) returns the serialized fields minus exactly the
\* read-only ones, the ones whose serialized value equals the declared initial
\* value and the ones whose name ends with "_set"; every remaining field keeps
\* its serialized value.
C17_GetAttrsDropsExactly ==
    IsAttrsCall =>
        /\ DOMAIN last.val =
               {name \in DOMAIN last.data : ~Dropped(last.fields, last.data, name)}
        /\ \A name \in DOMAIN last.val : last.val[name] = last.data[name]

C17_Reached ==
    /\ IsAttrsCall
    /\ Len(last.fields) = 2
    /\ DOMAIN last.data = {<<"a", "_", "s", "e", "t">>, <<"_", "s", "e", "t", "s">>}
    /\ \A i \in 1..2 : ~last.fields[i].read_only /\ last.fields[i].initial = None
    /\ \A name \in DOMAIN last.data : last.data[name] = PyInt(1)
    /\ DOMAIN last.val = {<<"_", "s", "e", "t", "s">>}

\* C18: what a tag's resolve returns is deep-copied before it becomes part of
\* the result: the result of tag_resolver shares no container with
\* document.context, with the literal iterable of a For or with any other part
\* of the document, and writing to the result never changes the document.
C18_ResultSharesNothingWithDocument ==
    mem.resolved =>
        /\ Reach(mem.heap, mem.result) \cap Reach(mem.heap, mem.input) = {}
        /\ Read(mem.heap, mem.input) = mem.original

\* C19: a For is the innermost loop for its own item_body wherever it is
\* resolved, also as a direct argument of another tag: ForItem(0) and
\* ForItemIndex(0) resolved in a body yield the current item and index of the
\* For whose body it is.
C19_ForIsInnermostForItsBody ==
    \A k \in EventsOf("item") :
        Events[k].depth = 0 /\ Events[k].own # None =>
            /\ Events[k].exc = NoExc
            /\ Events[k].val = IF Events[k].tag = "ForItem"
                               THEN Events[k].own.item ELSE Events[k].own.index

\* C20: a tag_resolver call removes from the context stack only what it pushed
\* itself: a call that returns leaves the stack as it was on entry, also when
\* its value was already the top of the stack and was not pushed again, and no
\* stack holds the same object in two adjacent positions.
C20_CallPopsOnlyItsOwnPush ==
    /\ \A k \in EventsOf("leave") :
           Events[k].exc = NoExc => Events[k].left = Events[k].entered
    /\ \A e \in EntryIds : \A i \in 1..(Len(tag_contexts[e]) - 1) :
           tag_contexts[e][i] # tag_contexts[e][i + 1]

=============================================================================
